---------------------------- MODULE Spec2Model ----------------------------
(***************************************************************************)
(* A model of src/api.py, the read-only search API over the Crocdb SQLite  *)
(* database.  A text is a sequence of characters, a character is a string  *)
(* of length one ("U+00E9" and the like name the non-ASCII ones).  Python's *)
(* Optional values and SQL's nullable columns are None or Some(v).         *)
(***************************************************************************)
EXTENDS Integers, Sequences, FiniteSets, TLC

None == << >>
Some(v) == << v >>

(***************************************************************************)
(* Characters                                                              *)
(***************************************************************************)
UpperChars ==
  << "A", "B", "C", "D", "E", "F", "G", "H", "I", "J", "K", "L", "M",
     "N", "O", "P", "Q", "R", "S", "T", "U", "V", "W", "X", "Y", "Z" >>

LowerChars ==
  << "a", "b", "c", "d", "e", "f", "g", "h", "i", "j", "k", "l", "m",
     "n", "o", "p", "q", "r", "s", "t", "u", "v", "w", "x", "y", "z" >>

DigitChars == { "0", "1", "2", "3", "4", "5", "6", "7", "8", "9" }

\* what str.split() and str.strip() take for white space
Whitespace == { " ", "\t" }

Range(s) == { s[i] : i \in DOMAIN s }

\* str.lower() on one character
LowerChar(c) ==
  IF \E i \in DOMAIN UpperChars : UpperChars[i] = c
    THEN LowerChars[CHOOSE i \in DOMAIN UpperChars : UpperChars[i] = c]
    ELSE c

\* str.lower()
lower(text) == [i \in DOMAIN text |-> LowerChar(text[i])]

\* the text of one character of unidecode's table
UnidecodeChar(c) ==
  CASE c = "U+00E9" -> << "e" >>
    [] c = "U+2122" -> << "(", "t", "m", ")" >>
    [] c = "U+00A9" -> << "(", "c", ")" >>
    [] c = "U+00AE" -> << "(", "r", ")" >>
    [] OTHER -> << c >>

RECURSIVE unidecode(_)
unidecode(text) ==
  IF text = << >> THEN << >>
  ELSE UnidecodeChar(Head(text)) \o unidecode(Tail(text))

\* str.strip(): white space removed at both ends
RECURSIVE lstrip(_)
lstrip(text) ==
  IF text # << >> /\ Head(text) \in Whitespace THEN lstrip(Tail(text)) ELSE text

RECURSIVE rstrip(_)
rstrip(text) ==
  IF text # << >> /\ text[Len(text)] \in Whitespace
    THEN rstrip(SubSeq(text, 1, Len(text) - 1))
    ELSE text

strip(text) == rstrip(lstrip(text))

\* str.replace(old, new) for a one-character old
RECURSIVE replace(_, _, _)
replace(text, old, new) ==
  IF text = << >> THEN << >>
  ELSE (IF Head(text) = old THEN new ELSE << Head(text) >>)
         \o replace(Tail(text), old, new)

\* re.sub(char+, char, text)
RECURSIVE CollapseRuns(_, _)
CollapseRuns(text, char) ==
  IF Len(text) < 2 THEN text
  ELSE IF text[1] = char /\ text[2] = char
    THEN CollapseRuns(Tail(text), char)
    ELSE << Head(text) >> \o CollapseRuns(Tail(text), char)

normalize_repeated_chars(text, char) == strip(CollapseRuns(text, char))

\* the dict of substitutions, in its order
InvalidChars ==
  << << "+", << "p", "l", "u", "s" >> >>,
     << "&", << "a", "n", "d" >> >>,
     << "U+2122", << >> >>,
     << "U+00A9", << >> >>,
     << "U+00AE", << >> >> >>

RECURSIVE ReplaceFrom(_, _)
ReplaceFrom(title, k) ==
  IF k > Len(InvalidChars) THEN title
  ELSE ReplaceFrom(
         replace(title, InvalidChars[k][1],
                 << " " >> \o InvalidChars[k][2] \o << " " >>),
         k + 1)

replace_invalid_chars(title) == ReplaceFrom(title, 1)

get_valid_search_key(search_key) ==
  strip(normalize_repeated_chars(unidecode(replace_invalid_chars(search_key)), " "))

\* re.sub("[^a-z0-9]", "", title)
IsIndexChar(c) == c \in Range(LowerChars) \cup DigitChars

create_db_search_key(title) ==
  strip(SelectSeq(lower(get_valid_search_key(title)), IsIndexChar))

\* str.split(): the maximal runs of non-white-space characters
RECURSIVE SplitFrom(_, _, _)
SplitFrom(text, word, words) ==
  IF text = << >>
    THEN IF word = << >> THEN words ELSE Append(words, word)
  ELSE IF Head(text) \in Whitespace
    THEN SplitFrom(Tail(text), << >>,
                   IF word = << >> THEN words ELSE Append(words, word))
    ELSE SplitFrom(Tail(text), Append(word, Head(text)), words)

split(text) == SplitFrom(text, << >>, << >>)

\* sep.join(words)
RECURSIVE join(_, _)
join(sep, words) ==
  IF words = << >> THEN << >>
  ELSE IF Len(words) = 1 THEN words[1]
  ELSE words[1] \o sep \o join(sep, Tail(words))

Quote == "\""

\* word.replace('"', '""')
EscapeWord(word) == replace(word, Quote, << Quote, Quote >>)

prepare_search_key(search_key) ==
  LET words == split(search_key)
      escaped_words == [i \in DOMAIN words |-> EscapeWord(words[i])]
      quoted_words ==
        [i \in DOMAIN words |-> << Quote >> \o escaped_words[i] \o << Quote >>]
  IN  join(<< " " >>, quoted_words)

(***************************************************************************)
(* The text-match operator of the index: the expression is a list of       *)
(* phrases, each a quoted string ("" inside one is a quote character) or a *)
(* bare word; an expression with no phrase, an unterminated string or a    *)
(* stray character is a syntax error.  A row matches when its search_key   *)
(* holds every phrase, letter case ignored.                                *)
(***************************************************************************)
IsBareChar(c) ==
  c \in Range(LowerChars) \cup Range(UpperChars) \cup DigitChars

RECURSIVE MatchPhrasesFrom(_, _, _, _)
MatchPhrasesFrom(expr, mode, cur, acc) ==
  IF expr = << >>
    THEN CASE mode = "out" -> Some(acc)
           [] mode = "bare" -> Some(Append(acc, cur))
           [] OTHER -> None
  ELSE LET c == Head(expr) rest == Tail(expr) IN
    CASE mode = "out" ->
           IF c \in Whitespace THEN MatchPhrasesFrom(rest, "out", << >>, acc)
           ELSE IF c = Quote THEN MatchPhrasesFrom(rest, "quoted", << >>, acc)
           ELSE IF IsBareChar(c) THEN MatchPhrasesFrom(rest, "bare", << c >>, acc)
           ELSE None
      [] mode = "bare" ->
           IF IsBareChar(c) THEN MatchPhrasesFrom(rest, "bare", Append(cur, c), acc)
           ELSE IF c \in Whitespace
             THEN MatchPhrasesFrom(rest, "out", << >>, Append(acc, cur))
           ELSE IF c = Quote
             THEN MatchPhrasesFrom(rest, "quoted", << >>, Append(acc, cur))
           ELSE None
      [] OTHER ->
           IF c # Quote THEN MatchPhrasesFrom(rest, "quoted", Append(cur, c), acc)
           ELSE IF rest # << >> /\ Head(rest) = Quote
             THEN MatchPhrasesFrom(Tail(rest), "quoted", Append(cur, Quote), acc)
           ELSE MatchPhrasesFrom(rest, "out", << >>, Append(acc, cur))

\* Some(phrases), or None for a syntax error
MatchPhrases(expr) ==
  LET parsed == MatchPhrasesFrom(expr, "out", << >>, << >>)
  IN  IF parsed = None \/ parsed[1] = << >> THEN None ELSE parsed

IsPrefix(p, text) == Len(p) <= Len(text) /\ SubSeq(text, 1, Len(p)) = p

Contains(text, p) ==
  \E i \in 0 .. (Len(text) - Len(p)) : SubSeq(text, i + 1, i + Len(p)) = p

\* fts.search_key MATCH expr, for an expression that parses
Match(search_key, expr) ==
  LET phrases == MatchPhrases(expr)[1]
  IN  \A i \in DOMAIN phrases : Contains(lower(search_key), lower(phrases[i]))

\* value LIKE pattern || '%', for a pattern without wild cards
LikePrefix(value, pattern) == IsPrefix(lower(pattern), lower(value))

(***************************************************************************)
(* The database: the rows a catalog may hold                               *)
(***************************************************************************)
EntryPool ==
  << [rowid |-> 1, slug |-> "mario-kart", rom_id |-> "r1",
      title |-> << "M", "a", "r", "i", "o", " ", "K", "a", "r", "t" >>,
      platform |-> "snes", boxart_url |-> "boxart/1"],
     [rowid |-> 2, slug |-> "super-mario-kart", rom_id |-> "r2",
      title |-> << "S", "u", "p", "e", "r", " ", "M", "a", "r", "i", "o",
                   " ", "K", "a", "r", "t" >>,
      platform |-> "snes", boxart_url |-> "boxart/2"],
     [rowid |-> 3, slug |-> "mario-kart-and-co", rom_id |-> "r3",
      title |-> << "M", "a", "r", "i", "o", " ", "K", "a", "r", "t", " ",
                   "&", " ", "C", "o" >>,
      platform |-> "gba", boxart_url |-> "boxart/3"] >>

RegionPool ==
  { [entry |-> "super-mario-kart", region |-> "US"],
    [entry |-> "super-mario-kart", region |-> "EU"],
    [entry |-> "super-mario-kart", region |-> "JP"],
    [entry |-> "mario-kart-and-co", region |-> "JP"] }

LinkRow(entry, name, host) ==
  [entry |-> entry, name |-> name, type |-> "Game", format |-> "zip",
   url |-> host \o "/" \o name, filename |-> name, host |-> host,
   size |-> 1024, size_str |-> "1K", source_url |-> host]

LinkPool ==
  { LinkRow("mario-kart", "mk.zip", "hostA"),
    LinkRow("super-mario-kart", "smk.zip", "hostA"),
    LinkRow("super-mario-kart", "smk.7z", "hostB") }

PlatformRows == { [id |-> "snes", brand |-> "Nintendo", name |-> "SNES"],
                  [id |-> "gba", brand |-> "Nintendo", name |-> "GBA"] }

RegionRows == { [id |-> "US", name |-> "USA"], [id |-> "EU", name |-> "Europe"],
                [id |-> "JP", name |-> "Japan"] }

\* the orders in which a scan may yield the rows of a set of rowids
ScanOrders(ids) ==
  { s \in [1 .. Cardinality(ids) -> ids] :
      \A i, j \in DOMAIN s : i # j => s[i] # s[j] }

VARIABLES
  entries,          \* table entries, in the order a scan yields its rows
  entries_fts,      \* table entries_fts: rowid -> search_key
  regions_entries,  \* table regions_entries
  links,            \* table links
  call,             \* the call that has ended: operation, arguments, fault
  resp,             \* what that call gave its caller
  query,            \* what get_search bound to its paginated query
  con               \* the connection that call opened: none, open or closed

vars ==
  << entries, entries_fts, regions_entries, links, call, resp, query, con >>

(***************************************************************************)
(* Responses and exceptions                                                *)
(***************************************************************************)
EmptyDict == [k \in {} |-> None]

\* info or {}, data or {}
build_response(info, data) == [info |-> info, data |-> data]

Return(value) == [outcome |-> "return", value |-> value]
Raise(exc) == [outcome |-> "raise", exc |-> exc]

\* the classes of an exception, itself first
Classes(exc) ==
  CASE exc = "OperationalError" ->
         { "OperationalError", "DatabaseError", "Exception" }
    [] exc = "IntegrityError" -> { "IntegrityError", "DatabaseError", "Exception" }
    [] exc = "ValueError" -> { "ValueError", "Exception" }
    [] OTHER -> { exc, "Exception" }

\* the exceptions a statement's execution is made to raise
QueryFaults == { "OperationalError", "IntegrityError", "ValueError", "TypeError" }

\* the steps of with_db that are made to fail
WrapperFaults == { "connect", "cursor", "cur.close" }

Faults == { "none" } \cup QueryFaults \cup WrapperFaults

\* cur.execute under the injected fault
ExecuteRaises(fault) == fault \in QueryFaults

handle_exception(result) ==
  IF result.outcome = "return" THEN result
  ELSE IF "OperationalError" \in Classes(result.exc)
    THEN Return(build_response([error |-> "Database operation failed"], EmptyDict))
  ELSE IF "DatabaseError" \in Classes(result.exc)
    THEN Return(build_response([error |-> "A database error occurred"], EmptyDict))
  ELSE IF "ValueError" \in Classes(result.exc)
    THEN Return(build_response([error |-> "Invalid input provided"], EmptyDict))
  ELSE Return(build_response([error |-> "An unexpected error occurred"], EmptyDict))

\* the wrapper of with_db around the result of the wrapped function:
\* what the caller gets, and the connection when the call has ended
with_db(result, fault) ==
  IF fault = "connect"
    THEN [resp |-> Raise("OperationalError"), con |-> "none"]
  ELSE IF fault = "cursor"
    THEN [resp |-> Raise("ProgrammingError"), con |-> "open"]
  ELSE IF fault = "cur.close"
    THEN [resp |-> Raise("ProgrammingError"), con |-> "open"]
  ELSE [resp |-> result, con |-> "closed"]

(***************************************************************************)
(* get_search                                                              *)
(***************************************************************************)
Max(a, b) == IF a >= b THEN a ELSE b
Min(a, b) == IF a <= b THEN a ELSE b

MaxResultsLimit == 100

\* "if x:" for an Optional text, an Optional string, an Optional list
TruthyText(o) == o # None /\ o[1] # << >>
TruthyStr(o) == o # None /\ o[1] # ""
OrEmptyList(o) == IF o = None THEN << >> ELSE o[1]

\* a set as a sequence, in some fixed order
RECURSIVE SetToSeq(_)
SetToSeq(S) ==
  IF S = {} THEN << >>
  ELSE LET x == CHOOSE y \in S : TRUE IN << x >> \o SetToSeq(S \ {x})

RECURSIVE Concat(_)
Concat(seqs) == IF seqs = << >> THEN << >> ELSE Head(seqs) \o Concat(Tail(seqs))

\* FROM entries e
FromEntries == [i \in DOMAIN entries |-> [e |-> entries[i], fts |-> None, re |-> None]]

\* JOIN entries_fts fts ON fts.rowid = e.rowid
JoinFts(rows) ==
  LET hit(r) == r.e.rowid \in DOMAIN entries_fts IN
  LET kept == SelectSeq(rows, hit) IN
  [i \in DOMAIN kept |-> [kept[i] EXCEPT !.fts = Some(entries_fts[kept[i].e.rowid])]]

\* LEFT JOIN regions_entries re ON re.entry = e.slug
LeftJoinRegions(rows) ==
  LET of(r) == SetToSeq({ x \in regions_entries : x.entry = r.e.slug })
      expand(r) ==
        IF of(r) = << >> THEN << r >>
        ELSE [k \in DOMAIN of(r) |-> [r EXCEPT !.re = Some(of(r)[k].region)]]
  IN  Concat([i \in DOMAIN rows |-> expand(rows[i])])

\* a faulty variant: the clause without "OR re.region IS NULL"
RegionClause_NoNull(row, regions) == row.re # None /\ row.re[1] \in Range(regions)

\* (re.region IN (...) OR re.region IS NULL)
RegionClause(row, regions) ==
  \/ row.re # None /\ row.re[1] \in Range(regions)
  \/ row.re = None

\* e.platform IN (...)
PlatformClause(row, platforms) == row.e.platform \in Range(platforms)

\* the rows of base_query before DISTINCT: joins, then WHERE
BaseRows(search_key, platforms, regions, rom_id) ==
  LET joined1 == IF TruthyText(search_key) THEN JoinFts(FromEntries) ELSE FromEntries
      joined2 == IF regions # << >> THEN LeftJoinRegions(joined1) ELSE joined1
      where(row) ==
        /\ TruthyText(search_key) =>
             Match(row.fts[1], prepare_search_key(search_key[1]))
        /\ platforms # << >> => PlatformClause(row, platforms)
        /\ regions # << >> => RegionClause(row, regions)
        /\ TruthyStr(rom_id) => row.e.rom_id = rom_id[1]
  IN  SelectSeq(joined2, where)

\* SELECT DISTINCT e.slug, e.rom_id, e.title, e.platform, e.boxart_url:
\* a row is dropped when an earlier one has the same selected columns
Selected(row) ==
  [slug |-> row.e.slug, rom_id |-> row.e.rom_id, title |-> row.e.title,
   platform |-> row.e.platform, boxart_url |-> row.e.boxart_url]

\* a faulty variant: SELECT without DISTINCT
Distinct_All(rows) == rows

Distinct(rows) ==
  LET idx == { i \in DOMAIN rows :
                 \A j \in 1 .. (i - 1) : Selected(rows[j]) # Selected(rows[i]) }
      pick[k \in 0 .. Cardinality(idx)] ==
        IF k = 0 THEN << >>
        ELSE Append(pick[k - 1],
                    rows[CHOOSE i \in idx : Cardinality({ j \in idx : j < i }) = k - 1])
  IN  pick[Cardinality(idx)]

\* a faulty variant: the paginated query without ORDER BY
OrderByPrefix_Unordered(rows, db_search_key) == rows

\* ORDER BY (fts.search_key LIKE ? || '%') DESC: the rows whose key starts
\* with the parameter, then the others, each group in the order it came
OrderByPrefix(rows, db_search_key) ==
  LET first(r) == LikePrefix(r.fts[1], db_search_key)
      rest(r) == ~LikePrefix(r.fts[1], db_search_key)
  IN  SelectSeq(rows, first) \o SelectSeq(rows, rest)

\* LIMIT ? OFFSET ?: a negative offset counts as 0
LimitOffset(rows, limit, offset) ==
  LET from == Max(offset, 0)
  IN  SubSeq(rows, from + 1, Min(Len(rows), from + limit))

\* the regions and links attached to a selected row
Hydrate(entry) ==
  [slug |-> entry.slug, rom_id |-> entry.rom_id, title |-> entry.title,
   platform |-> entry.platform, boxart_url |-> entry.boxart_url,
   regions |-> { x.region : x \in { y \in regions_entries : y.entry = entry.slug } },
   links |-> { [f \in DOMAIN l \ { "entry" } |-> l[f]] :
                 l \in { y \in links : y.entry = entry.slug } }]

\* total_pages = (total_results + max_results - 1) // max_results
TotalPages(total_results, max_results) ==
  IF max_results > 0
    THEN (total_results + max_results - 1) \div max_results
    ELSE 1

\* the function under handle_exception: its result and the parameters of
\* its paginated query (None when that query is not reached)
get_search(search_key, platforms0, regions0, rom_id, max_results0, page0, fault) ==
  LET platforms == OrEmptyList(platforms0)
      regions == OrEmptyList(regions0)
      max_results == Max(1, Min(max_results0, MaxResultsLimit))
      page1 == Max(1, page0)
      fts_join == TruthyText(search_key)
      match == IF fts_join THEN Some(prepare_search_key(search_key[1])) ELSE None
  IN  IF ExecuteRaises(fault)
        THEN [result |-> Raise(fault), query |-> None]
      ELSE IF fts_join /\ MatchPhrases(match[1]) = None
        THEN [result |-> Raise("OperationalError"), query |-> None]
      ELSE
        LET base == Distinct(BaseRows(search_key, platforms, regions, rom_id))
            total_results == Len(base)
            total_pages == TotalPages(total_results, max_results)
            page == Min(page1, total_pages)
            offset == (page - 1) * max_results
            ordered ==
              IF fts_join
                THEN OrderByPrefix(base, create_db_search_key(search_key[1]))
                ELSE base
            rows == LimitOffset(ordered, max_results, offset)
            results == [i \in DOMAIN rows |-> Hydrate(Selected(rows[i]))]
        IN  [result |->
               Return(build_response(EmptyDict,
                 [results |-> results,
                  current_results |-> Len(results),
                  total_results |-> total_results,
                  current_page |-> page,
                  total_pages |-> total_pages])),
             query |->
               Some([fts_join |-> fts_join, match |-> match,
                     limit |-> max_results, offset |-> offset])]

(***************************************************************************)
(* get_entry, get_platforms, get_regions, get_info                         *)
(***************************************************************************)
\* a faulty variant: "if slug is None"
SlugMissing_NoneOnly(slug) == slug = None

\* "if not slug"
SlugMissing(slug) == ~TruthyStr(slug)

\* pick: the row ORDER BY RANDOM() LIMIT 1 yields when there is one
get_entry(slug, random, pick, fault) ==
  LET found == SelectSeq(entries, LAMBDA e : e.slug = slug[1])
      hydrated(e) ==
        Return(build_response(EmptyDict, [entry |-> Hydrate(Selected([e |-> e]))]))
  IN  IF random
        THEN IF ExecuteRaises(fault) THEN Raise(fault)
             ELSE IF entries = << >> THEN Return(build_response(EmptyDict, EmptyDict))
             ELSE hydrated(entries[pick])
      ELSE IF SlugMissing(slug)
        THEN Return(build_response([error |-> "Slug is required"], EmptyDict))
      ELSE IF ExecuteRaises(fault) THEN Raise(fault)
      ELSE IF found = << >>
        THEN Return(build_response([error |-> "Entry not found"], EmptyDict))
      ELSE hydrated(found[1])

get_platforms(fault) ==
  IF ExecuteRaises(fault) THEN Raise(fault)
  ELSE Return(build_response(EmptyDict,
         [platforms |->
            [id \in { r.id : r \in PlatformRows } |->
               LET r == CHOOSE x \in PlatformRows : x.id = id
               IN  [brand |-> r.brand, name |-> r.name]]]))

get_regions(fault) ==
  IF ExecuteRaises(fault) THEN Raise(fault)
  ELSE Return(build_response(EmptyDict,
         [regions |->
            [id \in { r.id : r \in RegionRows } |->
               (CHOOSE x \in RegionRows : x.id = id).name]]))

get_info(fault) ==
  IF ExecuteRaises(fault) THEN Raise(fault)
  ELSE Return(build_response(EmptyDict, [total_entries |-> Len(entries)]))

(***************************************************************************)
(* The arguments the calls are made with                                   *)
(***************************************************************************)
MaxPage == 3

SearchKeys ==
  { None,
    Some(<< >>),
    Some(<< " " >>),
    Some(<< "m", "a", "r", "i", "o", " ", "k", "a", "r", "t" >>),
    Some(<< "K", "a", "r", "t", " ", "&", " ", Quote, "C", "o" >>) }

PlatformFilters == { None, Some(<< "snes" >>) }
RegionFilters == { None, Some(<< "US", "EU" >>), Some(<< "JP" >>) }
RomIds == { None, Some("r2") }
MaxResultsArgs == { 0, 2, 500 }
Pages == 0 .. MaxPage
Slugs == { None, Some(""), Some("mario-kart"), Some("super-mario-kart"),
           Some("nonexistent") }


(***************************************************************************)
(* The state machine: the database as populated, then one action per call  *)
(***************************************************************************)
NoCall == [op |-> "none"]
NoResp == [outcome |-> "none"]

Init ==
  /\ \E ids \in SUBSET DOMAIN EntryPool :
       \E order \in ScanOrders(ids) :
         /\ entries = [i \in DOMAIN order |-> EntryPool[order[i]]]
         /\ entries_fts = [id \in ids |-> create_db_search_key(EntryPool[id].title)]
         /\ regions_entries =
              { x \in RegionPool : \E id \in ids : EntryPool[id].slug = x.entry }
         /\ links = { x \in LinkPool : \E id \in ids : EntryPool[id].slug = x.entry }
  /\ call = NoCall
  /\ resp = NoResp
  /\ query = None
  /\ con = "none"

Database == << entries, entries_fts, regions_entries, links >>

GetSearch ==
  \E search_key \in SearchKeys, platforms \in PlatformFilters,
     regions \in RegionFilters, rom_id \in RomIds,
     max_results \in MaxResultsArgs, page \in Pages, fault \in Faults :
    LET body == get_search(search_key, platforms, regions, rom_id,
                           max_results, page, fault)
        ended == with_db(handle_exception(body.result), fault)
    IN  /\ call = NoCall
        /\ call' = [op |-> "get_search", search_key |-> search_key,
                    platforms |-> platforms, regions |-> regions,
                    rom_id |-> rom_id, max_results |-> max_results,
                    page |-> page, fault |-> fault]
        /\ resp' = ended.resp
        /\ query' = IF fault \in { "connect", "cursor" } THEN None ELSE body.query
        /\ con' = ended.con
        /\ UNCHANGED Database

GetEntry ==
  \E slug \in Slugs, random \in BOOLEAN, fault \in Faults,
     pick \in 1 .. Max(1, Len(entries)) :
    LET ended == with_db(handle_exception(get_entry(slug, random, pick, fault)), fault)
    IN  /\ call = NoCall
        /\ call' = [op |-> "get_entry", slug |-> slug, random |-> random,
                    fault |-> fault]
        /\ resp' = ended.resp
        /\ query' = None
        /\ con' = ended.con
        /\ UNCHANGED Database

GetPlatforms ==
  \E fault \in Faults :
    LET ended == with_db(handle_exception(get_platforms(fault)), fault)
    IN  /\ call = NoCall
        /\ call' = [op |-> "get_platforms", fault |-> fault]
        /\ resp' = ended.resp
        /\ query' = None
        /\ con' = ended.con
        /\ UNCHANGED Database

GetRegions ==
  \E fault \in Faults :
    LET ended == with_db(handle_exception(get_regions(fault)), fault)
    IN  /\ call = NoCall
        /\ call' = [op |-> "get_regions", fault |-> fault]
        /\ resp' = ended.resp
        /\ query' = None
        /\ con' = ended.con
        /\ UNCHANGED Database

GetInfo ==
  \E fault \in Faults :
    LET ended == with_db(handle_exception(get_info(fault)), fault)
    IN  /\ call = NoCall
        /\ call' = [op |-> "get_info", fault |-> fault]
        /\ resp' = ended.resp
        /\ query' = None
        /\ con' = ended.con
        /\ UNCHANGED Database

\* the caller takes the response and is free to call again
Receive ==
  /\ call # NoCall
  /\ call' = NoCall
  /\ resp' = NoResp
  /\ query' = None
  /\ con' = "none"
  /\ UNCHANGED Database

Next == GetSearch \/ GetEntry \/ GetPlatforms \/ GetRegions \/ GetInfo \/ Receive

Spec == Init /\ [][Next]_vars

(***************************************************************************)
(* What the properties speak of                                            *)
(***************************************************************************)
\* a call of get_search has ended with a response that carries no error
SearchReturned ==
  /\ call.op = "get_search"
  /\ resp.outcome = "return"
  /\ resp.value.info = EmptyDict

Data == resp.value.data

\* max_results as clamped to 1 .. 100
Clamped(max_results) ==
  IF max_results < 1 THEN 1
  ELSE IF max_results > MaxResultsLimit THEN MaxResultsLimit
  ELSE max_results

\* the least q with q * b >= a, for a >= 0 and b >= 1
CeilDiv(a, b) == CHOOSE q \in 0 .. a : q * b >= a /\ (q - 1) * b < a

\* the slugs of page p of the search of call c, when no fault is injected
PageSlugs(c, p) ==
  LET results ==
        get_search(c.search_key, c.platforms, c.regions, c.rom_id,
                   c.max_results, p, "none").result.value.data.results
  IN  [i \in DOMAIN results |-> results[i].slug]

\* pages 1 .. n of that search, one after the other
AllPagesSlugs(c, n) == Concat([p \in 1 .. n |-> PageSlugs(c, p)])

NoDuplicates(seq) == \A i, j \in DOMAIN seq : i # j => seq[i] # seq[j]

\* the entry satisfies the text, platform and rom_id filters of call c
KeyFilter(e, c) ==
  TruthyText(c.search_key) =>
    \A w \in Range(split(c.search_key[1])) :
      Contains(lower(entries_fts[e.rowid]), lower(w))

OtherFilters(e, c) ==
  /\ KeyFilter(e, c)
  /\ OrEmptyList(c.platforms) # << >> => e.platform \in Range(OrEmptyList(c.platforms))
  /\ TruthyStr(c.rom_id) => e.rom_id = c.rom_id[1]

RegionsOf(e) == { x.region : x \in { y \in regions_entries : y.entry = e.slug } }

\* the entry passes the region filter R: one of its regions is in R, or it has none
RegionFilter(e, R) == R # << >> => (RegionsOf(e) \cap Range(R) # {} \/ RegionsOf(e) = {})

MatchingSlugs(c) ==
  { e.slug : e \in { x \in Range(entries) :
                       OtherFilters(x, c) /\ RegionFilter(x, OrEmptyList(c.regions)) } }

\* the index key of the entry with this slug starts with the index key of the search key
HasPrefixKey(slug, search_key) ==
  \E e \in Range(entries) :
    /\ e.slug = slug
    /\ IsPrefix(create_db_search_key(search_key), entries_fts[e.rowid])

(***************************************************************************)
(* Properties                                                              *)
(***************************************************************************)

\* C1: a search that ends without error reports total_pages equal to
\* ceil(total_results / max_results) for the clamped max_results and at
\* least 1, so 1 when nothing matches.
C1_TotalPagesAtLeastOne ==
  SearchReturned =>
    Data.total_pages =
      Max(1, CeilDiv(Data.total_results, Clamped(call.max_results)))

\* C2: in a successful response 1 <= current_page <= total_pages, current_page
\* is the requested page when that is in range, and the offset of the
\* paginated query is (current_page - 1) * max_results and not negative.
C2_CurrentPageInRange ==
  SearchReturned =>
    /\ 1 <= Data.current_page
    /\ Data.current_page <= Data.total_pages
    /\ call.page \in 1 .. Data.total_pages => Data.current_page = call.page
    /\ query[1].offset = (Data.current_page - 1) * Clamped(call.max_results)
    /\ query[1].offset >= 0

\* C3: for the filters and max_results of a successful search, pages
\* 1 .. total_pages together hold every matching slug exactly once, their
\* lengths sum to total_results, and the response is its page of them.
C3_PagesPartitionMatches ==
  SearchReturned =>
    LET all == AllPagesSlugs(call, Data.total_pages) IN
    /\ NoDuplicates(all)
    /\ Range(all) = MatchingSlugs(call)
    /\ Len(all) = Data.total_results
    /\ Data.current_results = Len(Data.results)
    /\ Data.current_page \in 1 .. Data.total_pages =>
         [i \in DOMAIN Data.results |-> Data.results[i].slug]
           = PageSlugs(call, Data.current_page)

C3_Witness ==
  /\ SearchReturned
  /\ TruthyText(call.search_key)
  /\ call.regions = Some(<< "US", "EU" >>)
  /\ Data.total_pages = 2
  /\ Data.current_page = 2
  /\ Data.total_results = 2
  /\ \E i \in DOMAIN Data.results : Data.results[i].slug = "super-mario-kart"

\* C4: every call of every operation returns an envelope, whatever fails in
\* it: no exception reaches the caller, and a failure to connect or to
\* execute a statement gives "Database operation failed" with empty data.
C4_NoFaultEscapes ==
  call # NoCall =>
    /\ resp.outcome = "return"
    /\ call.fault \in { "connect", "OperationalError" } =>
         resp.value = build_response([error |-> "Database operation failed"], EmptyDict)

\* C5: when a call has ended, the connection it opened is closed.
C5_ConnectionClosed == call # NoCall => con # "open"

\* C6: under a non-empty region filter R, an entry that satisfies the other
\* filters is on one of the pages exactly when one of its regions is in R
\* or it has no region at all.
C6_RegionFilterInclusive ==
  (SearchReturned /\ OrEmptyList(call.regions) # << >>) =>
    LET R == Range(OrEmptyList(call.regions))
        found == Range(AllPagesSlugs(call, Data.total_pages))
    IN  \A e \in Range(entries) :
          OtherFilters(e, call) =>
            (e.slug \in found <=> (RegionsOf(e) \cap R # {} \/ RegionsOf(e) = {}))

C6_Witness ==
  /\ SearchReturned
  /\ call.regions = Some(<< "US", "EU" >>)
  /\ call.search_key = None /\ call.platforms = None /\ call.rom_id = None
  /\ Len(entries) = 3
  /\ { Data.results[i].slug : i \in DOMAIN Data.results }
       = { "mario-kart", "super-mario-kart" }

\* C7: get_entry without random and without a slug (None or the empty
\* string) answers "Slug is required"; without random and with a slug no
\* entry has, "Entry not found"; with random on an empty catalog, empty info
\* and empty data whatever the slug; otherwise the entry, which is in the
\* catalog, with its regions and its links and no error.
C7_GetEntryOutcomes ==
  (call.op = "get_entry" /\ resp.outcome = "return") =>
    LET slugless == call.slug = None \/ call.slug = Some("")
        known == { e \in Range(entries) : ~slugless /\ e.slug = call.slug[1] }
        entry_of(e) ==
          [slug |-> e.slug, rom_id |-> e.rom_id, title |-> e.title,
           platform |-> e.platform, boxart_url |-> e.boxart_url,
           regions |-> RegionsOf(e),
           links |-> { [f \in DOMAIN l \ { "entry" } |-> l[f]] :
                         l \in { y \in links : y.entry = e.slug } }]
    IN  IF ~call.random /\ slugless
          THEN resp.value = build_response([error |-> "Slug is required"], EmptyDict)
        ELSE IF call.fault \in QueryFaults THEN TRUE
        ELSE IF ~call.random /\ known = {}
          THEN resp.value = build_response([error |-> "Entry not found"], EmptyDict)
        ELSE IF call.random /\ entries = << >>
          THEN resp.value = build_response(EmptyDict, EmptyDict)
        ELSE /\ resp.value.info = EmptyDict
             /\ DOMAIN resp.value.data = { "entry" }
             /\ \E e \in Range(entries) :
                  /\ resp.value.data.entry = entry_of(e)
                  /\ ~call.random => e \in known

C7_Witness ==
  /\ call.op = "get_entry" /\ resp.outcome = "return"
  /\ ~call.random /\ call.slug = Some("super-mario-kart")
  /\ resp.value.info = EmptyDict
  /\ resp.value.data.entry.regions = { "US", "EU", "JP" }
  /\ Cardinality(resp.value.data.entry.links) = 2

\* C8: with a search key, on pages 1 .. total_pages taken one after the
\* other no entry whose index key does not start with
\* create_db_search_key(search_key) comes before one whose index key does.
C8_PrefixMatchesFirst ==
  (SearchReturned /\ TruthyText(call.search_key)) =>
    LET all == AllPagesSlugs(call, Data.total_pages) IN
    \A i, j \in DOMAIN all :
      (i < j /\ HasPrefixKey(all[j], call.search_key[1]))
        => HasPrefixKey(all[i], call.search_key[1])

C8_Witness ==
  /\ SearchReturned
  /\ TruthyText(call.search_key)
  /\ Len(entries) = 3 /\ entries[1].slug = "super-mario-kart"
  /\ Data.total_pages = 3 /\ Data.current_page = 3
  /\ Data.current_results = 1
  /\ Data.results[1].slug = "super-mario-kart"

\* C9: a search key with no token (empty, or white space only) is no text
\* filter: no text-match parameter, no index join, and the response of the
\* same call without a search key.
C9_BlankKeyIsNoFilter ==
  (/\ call.op = "get_search"
   /\ call.fault = "none"
   /\ call.search_key # None
   /\ split(call.search_key[1]) = << >>) =>
    /\ resp = handle_exception(
                get_search(None, call.platforms, call.regions, call.rom_id,
                           call.max_results, call.page, "none").result)
    /\ query # None
    /\ ~query[1].fts_join
    /\ query[1].match = None

\* C10: the expression get_search binds to the text-match operator is the one
\* built from the tokens of get_valid_search_key(search_key): each token
\* with its quotes doubled and in quotes, the tokens joined by single spaces.
C10_MatchExpressionNormalized ==
  (call.op = "get_search" /\ query # None /\ query[1].match # None) =>
    LET words == split(get_valid_search_key(call.search_key[1])) IN
    query[1].match[1] =
      join(<< " " >>,
           [i \in DOMAIN words |->
              << Quote >> \o replace(words[i], Quote, << Quote, Quote >>)
                \o << Quote >>])

=============================================================================
